---- MODULE Spec2Model ----
(***************************************************************************)
(* The recon request state machine of the SWIPEYY dashboard (App.tsx).     *)
(*                                                                         *)
(* State is the React state of the App component plus the suspended        *)
(* executeRecon invocations (each one waits on a setTimeout promise).      *)
(* A step is one browser task: an input event, a click, or the             *)
(* continuation of executeRecon that runs when its timer resolves.  All    *)
(* setState calls of one task are applied together (one batch), so the     *)
(* states of the model are the states between tasks.                       *)
(*                                                                         *)
(* Spec is the dashboard as built: the only caller of clearSession is       *)
(* executeRecon and the only caller of executeRecon is the RUN button.      *)
(* FairSpec adds that every scheduled delay elapses.  SpecReset adds       *)
(* clearSession as a command of its own (the reset operation), which no     *)
(* control of the dashboard is bound to.                                   *)
(*                                                                         *)
(* A string is a sequence of one-character strings; a log message is the   *)
(* sequence of its literal pieces and the characters of the interpolated   *)
(* query.  The time field of a log entry (formatTime) is left out: no      *)
(* absolute clock is modelled, timers carry their remaining delay.         *)
(***************************************************************************)
EXTENDS Integers, Sequences, FiniteSets, TLC

\* ------------------------------------------------------------------ bounds
MaxLen == 3          \* typed queries have at most this many characters
MaxRuns == 2         \* at most this many executeRecon invocations suspended
MaxDetections == 2   \* the cumulative counter is followed up to this value
Quantum == 500       \* time advances in steps of this many milliseconds

\* -------------------------------------------------------- program constants
Delay1 == 500
Delay2 == 500
Delay3 == 600
\* the length check tightened by one
MinLengthOffByOne == 3 + 1
MinLength == 3
ScoreRange == 500000
MsPerDay == 86400000
DaysPerYear == 365
TwoFactorThreshold == 35

Alphabet == {"a", " "}
Whitespace == {" "}

RECURSIVE SeqsUpTo(_)
SeqsUpTo(n) ==
  IF n = 0 THEN {<<>>}
  ELSE LET shorter == SeqsUpTo(n - 1)
       IN shorter \cup {Append(s, c) : s \in {t \in shorter : Len(t) = n - 1}, c \in Alphabet}

presetTargets ==
  { <<"f","i","e","l","d","w","a","t","c","h">>,
    <<"a","r","c","h","i","v","i","s","t">>,
    <<"f","l","o","r","a","_","f","a","u","n","a">> }

Typed == SeqsUpTo(MaxLen)
Queries == Typed \cup presetTargets

\* ------------------------------------------------------------------- state
VARIABLES
  query,                \* useState('')            the input text
  status,               \* useState('IDLE')        ReconStatus
  logs,                 \* useState([])            LogEntry[]
  targetData,           \* useState(null)          TargetProfile | null
  errorMessage,         \* useState('')
  encryptedDetections,  \* useState(0)
  metrics,              \* useMemo(..., [encryptedDetections]): dependencies and value
  runs,                 \* suspended executeRecon invocations, oldest first
  lastOp                \* history: the kind of the step that led here

vars == <<query, status, logs, targetData, errorMessage, encryptedDetections, metrics, runs, lastOp>>

ReconStatus == {"IDLE", "CONNECTING", "FETCHING_HEADERS", "PARSING_JSON", "COMPLETE", "ERROR"}
InFlight == {"CONNECTING", "FETCHING_HEADERS", "PARSING_JSON"}
LogType == {"info", "sys", "success", "warn", "error"}

Null == [isNull |-> TRUE]
NoMessage == <<>>

\* ----------------------------------------------------------------- strings
RECURSIVE trimStart(_)
trimStart(s) ==
  IF s = <<>> THEN <<>>
  ELSE IF Head(s) \in Whitespace THEN trimStart(Tail(s)) ELSE s

RECURSIVE trimEnd(_)
trimEnd(s) ==
  IF s = <<>> THEN <<>>
  ELSE IF s[Len(s)] \in Whitespace THEN trimEnd(SubSeq(s, 1, Len(s) - 1)) ELSE s

\* the emptiness test applied to the raw string
noTrim(s) == s
trim(s) == trimEnd(trimStart(s))

EmptyQueryMsg == <<"Enter a username to start reconnaissance.">>
\* the fallback of the catch block taken instead of error.message
UnknownErrorMsg == <<"Unknown error">>
TooShortMsg == <<"Username too short (HTTP 400)">>
InitMsg(q) == <<"Initializing network socket for ">> \o q \o <<"...">>
TlsMsg == <<"TLS handshake complete.">>
\* the request line built from the trimmed query
GetMsgTrimmed(q) == <<"GET /api/v1/profile/">> \o trim(q) \o <<" -> 200 OK">>
GetMsg(q) == <<"GET /api/v1/profile/">> \o q \o <<" -> 200 OK">>
StreamMsg == <<"Streaming JSON payload...">>
MaterializedMsg == <<"Data object materialized.">>
MeoMsg == <<"MEO container detected: AES-256 encrypted. No access without device key.">>
\* a fatal line that leaves the reason out
FatalMsgNoReason(reason) == <<"FATAL">>
FatalMsg(reason) == <<"FATAL: ">> \o reason

\* an addLog that puts the new entry first
addLogPrepend(l, message, type) == <<[msg |-> message, type |-> type]>> \o l

\* an addLog that replaces the log by the new entry
addLogReplace(l, message, type) == <<[msg |-> message, type |-> type]>>

\* addLog(message, type = 'info'): append one entry to a log sequence
addLog(l, message, type) == Append(l, [msg |-> message, type |-> type])

\* ----------------------------------------------------------------- profile
\* Math.random(): a fraction n / d with 0 <= n < d
Rand == { [n |-> 0, d |-> 1], [n |-> 1, d |-> 2] }
\* a finer grid of values of Math.random(), up to just below 1
RandFine == { [n |-> 0, d |-> 1], [n |-> 1, d |-> 7], [n |-> 1, d |-> 2], [n |-> 23, d |-> 24] }

\* crypto.randomUUID(): an opaque token
Uuid == {"uuid-1", "uuid-2"}

CeilDiv(a, b) == (a + b - 1) \div b

\* encodeURIComponent: unreserved characters stay, a space becomes %20
encodeChar(c) == IF c = " " THEN <<"%", "2", "0">> ELSE <<c>>

RECURSIVE encodeURIComponent(_)
encodeURIComponent(s) ==
  IF s = <<>> THEN <<>> ELSE encodeChar(Head(s)) \o encodeURIComponent(Tail(s))

\* now - Math.random() * span, as a Date: the time value is truncated to whole
\* milliseconds, so the result lies ceil(r * span) ms before now.  The offset
\* is kept as whole days plus milliseconds.
AgoYear(r) ==
  LET a == r.n * DaysPerYear
  IN [days |-> a \div r.d, ms |-> CeilDiv((a % r.d) * MsPerDay, r.d)]

\* a lastActive drawn over the span of accountCreated
AgoDayOverYear(r) == AgoYear(r)

AgoDay(r) == [days |-> 0, ms |-> CeilDiv(r.n * MsPerDay, r.d)]

\* a generator that seeds the avatar with the profile id
buildMockProfileSeedById(username, u, rc, rl, rs, rt) ==
  [ id |-> u,
    username |-> username,
    platform |-> "SNAPCHAT",
    status |-> "PUBLIC",
    metadata |-> [ realName |-> "Unknown Subject",
                   accountCreated |-> AgoYear(rc),
                   lastActive |-> AgoDay(rl),
                   score |-> (rs.n * ScoreRange) \div rs.d,
                   avatarUrl |-> <<"https://api.dicebear.com/9.x/thumbs/svg?seed=">>
                                  \o encodeURIComponent(<<u>>) ],
    security |-> [ encryptionLevel |-> "AES-256",
                   meoContainer |-> "LOCKED",
                   twoFactorAuth |-> (rt.n * 100 > TwoFactorThreshold * rt.d) ] ]

\* a generator whose container state follows a random draw
buildMockProfileExposed(username, u, rc, rl, rs, rt) ==
  [ id |-> u,
    username |-> username,
    platform |-> "SNAPCHAT",
    status |-> "PUBLIC",
    metadata |-> [ realName |-> "Unknown Subject",
                   accountCreated |-> AgoYear(rc),
                   lastActive |-> AgoDay(rl),
                   score |-> (rs.n * ScoreRange) \div rs.d,
                   avatarUrl |-> <<"https://api.dicebear.com/9.x/thumbs/svg?seed=">>
                                  \o encodeURIComponent(username) ],
    security |-> [ encryptionLevel |-> "AES-256",
                   meoContainer |-> IF rt.n * 100 > TwoFactorThreshold * rt.d
                                    THEN "LOCKED" ELSE "EXPOSED",
                   twoFactorAuth |-> (rt.n * 100 > TwoFactorThreshold * rt.d) ] ]

buildMockProfile(username, u, rc, rl, rs, rt) ==
  [ id |-> u,
    username |-> username,
    platform |-> "SNAPCHAT",
    status |-> "PUBLIC",
    metadata |-> [ realName |-> "Unknown Subject",
                   accountCreated |-> AgoYear(rc),
                   lastActive |-> AgoDay(rl),
                   score |-> (rs.n * ScoreRange) \div rs.d,
                   avatarUrl |-> <<"https://api.dicebear.com/9.x/thumbs/svg?seed=">>
                                  \o encodeURIComponent(username) ],
    security |-> [ encryptionLevel |-> "AES-256",
                   meoContainer |-> "LOCKED",
                   twoFactorAuth |-> (rt.n * 100 > TwoFactorThreshold * rt.d) ] ]

\* ----------------------------------------------------------------- metrics
connectors ==
  << [id |-> "wikimedia", mode |-> "API", compliant |-> TRUE],
     [id |-> "inaturalist", mode |-> "API", compliant |-> TRUE],
     [id |-> "uploads", mode |-> "UPLOAD", compliant |-> TRUE],
     [id |-> "custom", mode |-> "CRAWL", compliant |-> FALSE] >>

jobQueue ==
  << [id |-> "JOB-2041", status |-> "COMPLETED"],
     [id |-> "JOB-2042", status |-> "RUNNING"],
     [id |-> "JOB-2043", status |-> "QUEUED"],
     [id |-> "JOB-2044", status |-> "ERRORED"] >>

IsCompliant(connector) == connector.compliant
IsActive(job) == job.status = "RUNNING" \/ job.status = "QUEUED"

\* the factory of the metrics memo, for a value of the cumulative counter
computeMetrics(detections) ==
  << [label |-> "Allowed Connectors", value |-> Len(SelectSeq(connectors, IsCompliant))],
     [label |-> "Active Jobs", value |-> Len(SelectSeq(jobQueue, IsActive))],
     [label |-> "Encrypted Containers Flagged", value |-> detections],
     [label |-> "Simulated Uptime", value |-> "99.97%"] >>

\* a dependency list left empty
metricsDepsNone(detections) == <<>>

\* the dependency list of the metrics memo
metricsDeps(detections) == <<detections>>

\* useMemo: the factory runs again only when the dependencies have changed
useMemo(memo, value, deps) ==
  IF memo.deps = deps THEN memo ELSE [deps |-> deps, value |-> value]

\* the render that follows a state update
Render ==
  metrics' = useMemo(metrics, computeMetrics(encryptedDetections'),
                     metricsDeps(encryptedDetections'))

\* ------------------------------------------------------------------ actions
Init ==
  /\ query = <<>>
  /\ status = "IDLE"
  /\ logs = <<>>
  /\ targetData = Null
  /\ errorMessage = NoMessage
  /\ encryptedDetections = 0
  /\ metrics = [deps |-> metricsDeps(0), value |-> computeMetrics(0)]
  /\ runs = <<>>
  /\ lastOp = "init"

\* one edit of the input text: a character typed or deleted at the end, or the
\* whole text deleted
Keystroke(old, new) ==
  \/ new = <<>>
  \/ old # <<>> /\ new = SubSeq(old, 1, Len(old) - 1)
  \/ new # <<>> /\ old = SubSeq(new, 1, Len(new) - 1)

\* onChange of the input: setQuery(e.target.value)
SetQuery(v) ==
  /\ v \in Typed
  /\ v # query
  /\ Keystroke(query, v)
  /\ query' = v
  /\ lastOp' = "setQuery"
  /\ UNCHANGED <<status, logs, targetData, errorMessage, encryptedDetections, runs>>
  /\ Render

\* onClick of a preset button: setQuery(preset.username)
PickPreset(p) ==
  /\ p \in presetTargets
  /\ query' = p
  /\ lastOp' = "setQuery"
  /\ UNCHANGED <<status, logs, targetData, errorMessage, encryptedDetections, runs>>
  /\ Render

\* a session clear that also zeroes the cumulative counter
clearSessionZeroesCounter ==
  [ logs |-> <<>>,
    targetData |-> Null,
    errorMessage |-> NoMessage,
    status |-> "IDLE",
    query |-> query,
    encryptedDetections |-> 0 ]

\* a session clear that forgets setLogs([])
clearSessionKeepsLogs ==
  [ logs |-> logs,
    targetData |-> Null,
    errorMessage |-> NoMessage,
    status |-> "IDLE",
    query |-> query,
    encryptedDetections |-> encryptedDetections ]

\* a session clear that forgets setErrorMessage('')
clearSessionKeepsError ==
  [ logs |-> <<>>,
    targetData |-> Null,
    errorMessage |-> errorMessage,
    status |-> "IDLE",
    query |-> query,
    encryptedDetections |-> encryptedDetections ]

\* a session clear that forgets setTargetData(null)
clearSessionKeepsProfile ==
  [ logs |-> <<>>,
    targetData |-> targetData,
    errorMessage |-> NoMessage,
    status |-> "IDLE",
    query |-> query,
    encryptedDetections |-> encryptedDetections ]

\* clearSession(): the session fields after the call
clearSession ==
  [ logs |-> <<>>,
    targetData |-> Null,
    errorMessage |-> NoMessage,
    status |-> "IDLE",
    query |-> query,
    encryptedDetections |-> encryptedDetections ]

\* a disabled attribute that forgets PARSING_JSON
RunDisabledWhileConnecting == status = "CONNECTING" \/ status = "FETCHING_HEADERS"

\* a RUN button that is never disabled
RunDisabledNever == FALSE

\* the disabled attribute of the RUN button
RunDisabled == status = "CONNECTING" \/ status = "FETCHING_HEADERS" \/ status = "PARSING_JSON"

\* executeRecon up to its first await
executeRecon ==
  IF trim(query) = <<>>
  THEN /\ errorMessage' = EmptyQueryMsg
       /\ lastOp' = "runBlank"
       /\ UNCHANGED <<query, status, logs, targetData, encryptedDetections, runs>>
       /\ Render
  ELSE /\ Len(runs) < MaxRuns
       /\ encryptedDetections + Len(runs) < MaxDetections
       \* clearSession(); setStatus('CONNECTING'); addLog(..., 'sys')
       /\ logs' = addLog(clearSession.logs, InitMsg(query), "sys")
       /\ targetData' = clearSession.targetData
       /\ errorMessage' = clearSession.errorMessage
       /\ status' = "CONNECTING"
       /\ query' = clearSession.query
       /\ encryptedDetections' = clearSession.encryptedDetections
       /\ runs' = Append(runs, [q |-> query, pc |-> 1, rem |-> Delay1])
       /\ lastOp' = "run"
       /\ Render

\* a click on the RUN button: a disabled button dispatches no click
ClickRun ==
  /\ ~RunDisabled
  /\ executeRecon

\* the input text read when the continuation runs, not the captured one
liveQuery(i) == query

\* the query of the closure of invocation i: the input text at its start
capturedQuery(i) == runs[i].q

RemoveAt(s, i) == SubSeq(s, 1, i - 1) \o SubSeq(s, i + 1, Len(s))

\* first timer resolved: addLog('TLS handshake complete.'); setStatus('FETCHING_HEADERS')
AfterConnect(i) ==
  /\ runs[i].pc = 1
  /\ logs' = addLog(logs, TlsMsg, "info")
  /\ status' = "FETCHING_HEADERS"
  /\ runs' = [runs EXCEPT ![i] = [q |-> runs[i].q, pc |-> 2, rem |-> Delay2]]
  /\ lastOp' = "afterConnect"
  /\ UNCHANGED <<query, targetData, errorMessage, encryptedDetections>>
  /\ Render

\* second timer resolved: the GET line is logged, then the length check either
\* throws into the catch block or moves on to PARSING_JSON
\* a length that counts the trimmed string
lengthTrimmed(s) == Len(trim(s))

\* query.length: the raw number of characters
length(s) == Len(s)

AfterHeaders(i) ==
  /\ runs[i].pc = 2
  /\ LET q == capturedQuery(i)
         withGet == addLog(logs, GetMsg(q), "success")
         \* throw new Error(...), then in the catch block error.message
         reason == TooShortMsg
     IN IF length(q) < MinLength
        THEN /\ status' = "ERROR"
             /\ errorMessage' = reason
             /\ logs' = addLog(withGet, FatalMsg(reason), "error")
             /\ runs' = RemoveAt(runs, i)
             /\ lastOp' = "failed"
        ELSE /\ status' = "PARSING_JSON"
             /\ logs' = addLog(withGet, StreamMsg, "info")
             /\ runs' = [runs EXCEPT ![i] = [q |-> q, pc |-> 3, rem |-> Delay3]]
             /\ lastOp' = "afterHeaders"
             /\ UNCHANGED errorMessage
  /\ UNCHANGED <<query, targetData, encryptedDetections>>
  /\ Render

\* the updater (prev) => prev + 1 of setEncryptedDetections
increment(prev) == prev + 1

\* third timer resolved: profile, counter, COMPLETE and the two closing lines
\* the continuation after the third delay, its four draws taken from R
AfterParseDrawing(i, R) ==
  /\ runs[i].pc = 3
  /\ \E u \in Uuid, rc \in R, rl \in R, rs \in R, rt \in R :
       targetData' = buildMockProfile(capturedQuery(i), u, rc, rl, rs, rt)
  /\ encryptedDetections' = increment(encryptedDetections)
  /\ status' = "COMPLETE"
  /\ logs' = addLog(addLog(logs, MaterializedMsg, "success"), MeoMsg, "warn")
  /\ runs' = RemoveAt(runs, i)
  /\ lastOp' = "completed"
  /\ UNCHANGED <<query, errorMessage>>
  /\ Render

AfterParse(i) == AfterParseDrawing(i, Rand)

\* a due timer resolves its promise and the invocation continues
TimerFires(i) ==
  /\ i \in 1 .. Len(runs)
  /\ runs[i].rem = 0
  /\ (AfterConnect(i) \/ AfterHeaders(i) \/ AfterParse(i))

Max(a, b) == IF a >= b THEN a ELSE b

\* time passes while no timer is due
Tick ==
  /\ runs # <<>>
  /\ \A i \in 1 .. Len(runs) : runs[i].rem > 0
  /\ runs' = [i \in 1 .. Len(runs) |->
                [q |-> runs[i].q, pc |-> runs[i].pc, rem |-> Max(0, runs[i].rem - Quantum)]]
  /\ lastOp' = "tick"
  /\ UNCHANGED <<query, status, logs, targetData, errorMessage, encryptedDetections>>
  /\ Render

\* clearSession() invoked as a command of its own (the reset operation); the
\* suspended invocations of executeRecon are not touched
ResetCommand ==
  /\ logs' = clearSession.logs
  /\ targetData' = clearSession.targetData
  /\ errorMessage' = clearSession.errorMessage
  /\ status' = clearSession.status
  /\ query' = clearSession.query
  /\ encryptedDetections' = clearSession.encryptedDetections
  /\ lastOp' = "clearSession"
  /\ UNCHANGED runs
  /\ Render

Next ==
  \/ \E v \in Typed : SetQuery(v)
  \/ \E p \in presetTargets : PickPreset(p)
  \/ ClickRun
  \/ \E i \in 1 .. MaxRuns : TimerFires(i)
  \/ Tick

\* the dashboard as built: clearSession runs only inside executeRecon
Spec == Init /\ [][Next]_vars

Fairness == WF_vars(Tick) /\ WF_vars(\E i \in 1 .. MaxRuns : TimerFires(i))

\* the same, with every scheduled delay eventually elapsing
FairSpec == Spec /\ Fairness

\* a new request is followed only once the timers of a request that was cleared
\* in flight have drained
NextReset == (Next /\ (lastOp' = "run" => runs = <<>>)) \/ ResetCommand

\* the dashboard with the session clear exposed as the reset command
SpecReset == Init /\ [][NextReset]_vars

\* the first request of a session, followed to its end, with the generator's
\* draws taken from the finer grid
NextProfile ==
  \/ status = "IDLE" /\ (\E v \in Typed : SetQuery(v))
  \/ status = "IDLE" /\ (\E p \in presetTargets : PickPreset(p))
  \/ status = "IDLE" /\ ClickRun
  \/ Tick
  \/ \E i \in 1 .. MaxRuns :
       /\ i \in 1 .. Len(runs)
       /\ runs[i].rem = 0
       /\ (AfterConnect(i) \/ AfterHeaders(i) \/ AfterParseDrawing(i, RandFine))

SpecProfile == Init /\ [][NextProfile]_vars

TypeOK ==
  /\ query \in Queries
  /\ status \in ReconStatus
  /\ \A k \in 1 .. Len(logs) : logs[k].type \in LogType
  /\ encryptedDetections \in 0 .. MaxDetections
  /\ Len(runs) <= MaxRuns
  /\ \A k \in 1 .. Len(runs) : runs[k].q \in Queries /\ runs[k].pc \in 1 .. 3 /\ runs[k].rem \in 0 .. Delay3

\* ------------------------------------------------------------ properties
LogTypes == [k \in 1 .. Len(logs) |-> logs[k].type]
LastTwoTypes == SubSeq(LogTypes, Len(logs) - 1, Len(logs))
IsBlank(s) == \A k \in 1 .. Len(s) : s[k] = " "

\* C1: every accepted request whose query has length >= 3 (its trimmed form is
\* non-empty, or it would not have been accepted) reaches COMPLETE once its
\* delays have elapsed, and there the profile is present and the last two log
\* entries are of type success, then warn.
C1_LongQueryCompletes ==
  (runs # <<>> /\ Len(runs[1].q) >= 3 /\ ~IsBlank(runs[1].q))
    ~> (status = "COMPLETE" /\ targetData # Null /\ LastTwoTypes = <<"success", "warn">>)

C1_Witness ==
  /\ status = "COMPLETE"
  /\ targetData # Null
  /\ targetData.username = <<" ", "a", " ">>
  /\ LastTwoTypes = <<"success", "warn">>

\* C2: every accepted request whose query has length 1 or 2 reaches ERROR once
\* its delays have elapsed, and there the profile is absent and the error
\* message is exactly "Username too short (HTTP 400)".
C2_ShortQueryFails ==
  (runs # <<>> /\ Len(runs[1].q) > 0 /\ Len(runs[1].q) < 3 /\ ~IsBlank(runs[1].q))
    ~> (status = "ERROR" /\ targetData = Null
          /\ errorMessage = <<"Username too short (HTTP 400)">>)

C2_Witness ==
  /\ status = "ERROR"
  /\ lastOp = "failed"
  /\ targetData = Null
  /\ errorMessage = <<"Username too short (HTTP 400)">>
  /\ logs[1].msg = <<"Initializing network socket for ", "a", " ", "...">>

\* C3: when a request with a query of length 1 or 2 reaches ERROR, the log is
\* exactly the three entries sys "Initializing network socket for {query}...",
\* info "TLS handshake complete.", error "FATAL: Username too short (HTTP 400)";
\* no success entry "GET ... -> 200 OK" is present.
C3_ErrorLogHasThreeEntries ==
  (status = "ERROR" /\ lastOp = "failed") =>
    /\ LogTypes = <<"sys", "info", "error">>
    /\ logs[2].msg = <<"TLS handshake complete.">>
    /\ logs[3].msg = <<"FATAL: ", "Username too short (HTTP 400)">>
    /\ \A k \in 1 .. Len(logs) : logs[k].type # "success"

ExpectedCompleteLog(q) ==
  << [msg |-> <<"Initializing network socket for ">> \o q \o <<"...">>, type |-> "sys"],
     [msg |-> <<"TLS handshake complete.">>, type |-> "info"],
     [msg |-> <<"GET /api/v1/profile/">> \o q \o <<" -> 200 OK">>, type |-> "success"],
     [msg |-> <<"Streaming JSON payload...">>, type |-> "info"],
     [msg |-> <<"Data object materialized.">>, type |-> "success"],
     [msg |-> <<"MEO container detected: AES-256 encrypted. No access without device key.">>,
      type |-> "warn"] >>

\* C4: whenever phase is COMPLETE the log is exactly the six entries of the
\* transition table for the submitted query, of types sys, info, success,
\* info, success, warn in that order.
C4_CompleteLogHasSixEntries ==
  status = "COMPLETE" =>
    /\ Len(targetData.username) >= 3
    /\ LogTypes = <<"sys", "info", "success", "info", "success", "warn">>
    /\ logs = ExpectedCompleteLog(targetData.username)

C4_Witness ==
  /\ status = "COMPLETE"
  /\ Len(logs) = 6
  /\ targetData.username = <<"a", " ", " ">>

\* C5: a start with an empty or whitespace-only query is never accepted: it
\* schedules nothing and leaves phase, log, profile, counter and query as they
\* were; the only thing it sets is the error message "Enter a username to
\* start reconnaissance.".
C5_BlankStartOnlySetsMessage ==
  [][ /\ (IsBlank(query) => lastOp' # "run")
      /\ (lastOp' = "runBlank" =>
            /\ IsBlank(query)
            /\ status' = status
            /\ logs' = logs
            /\ targetData' = targetData
            /\ encryptedDetections' = encryptedDetections
            /\ runs' = runs
            /\ query' = query
            /\ errorMessage' = <<"Enter a username to start reconnaissance.">>) ]_vars

C5_Witness ==
  /\ lastOp = "runBlank"
  /\ query = <<" ", " ">>
  /\ status = "COMPLETE"
  /\ Len(logs) = 6
  /\ errorMessage = <<"Enter a username to start reconnaissance.">>

\* C6: while phase is CONNECTING, FETCHING_HEADERS or PARSING_JSON no start is
\* accepted, so at most one request has pending timers, a request is pending
\* exactly in those phases, and the log then holds entries of that request only.
C6_SingleTimeline ==
  /\ [][(status \in {"CONNECTING", "FETCHING_HEADERS", "PARSING_JSON"}) => (lastOp' # "run")]_vars
  /\ [](/\ Len(runs) <= 1
        /\ (runs # <<>>) <=> (status \in {"CONNECTING", "FETCHING_HEADERS", "PARSING_JSON"})
        /\ (runs # <<>> =>
              logs = SubSeq(ExpectedCompleteLog(runs[1].q), 1, Len(logs))))

C6_Witness ==
  /\ status = "PARSING_JSON"
  /\ Len(runs) = 1
  /\ ~IsBlank(query)
  /\ query # runs[1].q

\* C7: after a reset in flight the session stays cleared until the next start:
\* from phase IDLE no step other than an accepted start changes phase, log,
\* profile or counter, whatever timers the cleared request had pending.
C7_ResetCancelsPendingTimers ==
  [][(status = "IDLE" /\ lastOp' # "run") =>
       /\ status' = "IDLE"
       /\ logs' = <<>>
       /\ targetData' = Null
       /\ encryptedDetections' = encryptedDetections]_vars

\* C8: the cumulative counter starts at 0 and every step adds exactly 1 when it
\* enters COMPLETE and 0 otherwise (it never decreases; entering ERROR, a new
\* start and input edits leave it alone).
C8_CounterCountsCompletions ==
  /\ encryptedDetections = 0
  /\ [][encryptedDetections' =
          encryptedDetections + (IF status # "COMPLETE" /\ status' = "COMPLETE" THEN 1 ELSE 0)]_vars

C8_Witness ==
  /\ encryptedDetections = 1
  /\ status = "ERROR"
  /\ lastOp = "failed"

\* C9: the reset operation sets phase IDLE, empties the log, removes the
\* profile, clears the error message, and leaves counter and query text alone.
C9_ResetEffect ==
  [][lastOp' = "clearSession" =>
       /\ status' = "IDLE"
       /\ logs' = <<>>
       /\ targetData' = Null
       /\ errorMessage' = <<>>
       /\ encryptedDetections' = encryptedDetections
       /\ query' = query]_vars

C9_Witness ==
  /\ lastOp = "clearSession"
  /\ status = "IDLE"
  /\ logs = <<>>
  /\ targetData = Null
  /\ encryptedDetections = 2
  /\ query = <<"a", "a">>

\* C10: the profile is present exactly when phase is COMPLETE.
C10_ProfileIffComplete == (targetData # Null) <=> (status = "COMPLETE")

C10_Witness ==
  /\ status = "CONNECTING"
  /\ targetData = Null
  /\ encryptedDetections = 1

Last(s) == s[Len(s)]

\* C11 as stated: the error message is empty unless phase is ERROR.
C11_ErrorMessageOnlyInError == (errorMessage # <<>>) => (status = "ERROR")

\* C11, amended: the error message is empty unless phase is ERROR, or phase is
\* IDLE or COMPLETE and the message is the one of a rejected blank start; it
\* is always empty in CONNECTING, FETCHING_HEADERS and PARSING_JSON.
C11_ErrorMessageOnlyInErrorOrRejected ==
  (errorMessage # <<>>) =>
    \/ status = "ERROR"
    \/ /\ status \in {"IDLE", "COMPLETE"}
       /\ errorMessage = <<"Enter a username to start reconnaissance.">>

C11_Witness ==
  /\ status = "COMPLETE"
  /\ errorMessage = <<"Enter a username to start reconnaissance.">>
  /\ lastOp = "setQuery"

\* C12: every profile attached to the session has container state LOCKED and
\* encryption level AES-256.
C12_ProfileAlwaysLocked ==
  (targetData # Null) =>
    /\ targetData.security.meoContainer = "LOCKED"
    /\ targetData.security.encryptionLevel = "AES-256"

C12_Witness ==
  /\ targetData # Null
  /\ targetData.security.meoContainer = "LOCKED"
  /\ targetData.security.twoFactorAuth = FALSE
  /\ targetData.username = <<"a", "a", " ">>

PhaseEdges ==
  { <<"IDLE", "CONNECTING">>, <<"COMPLETE", "CONNECTING">>, <<"ERROR", "CONNECTING">>,
    <<"CONNECTING", "FETCHING_HEADERS">>,
    <<"FETCHING_HEADERS", "PARSING_JSON">>, <<"FETCHING_HEADERS", "ERROR">>,
    <<"PARSING_JSON", "COMPLETE">> }

C14_ErrorIsLogged ==
  (status = "ERROR") =>
    /\ errorMessage # <<>>
    /\ logs # <<>>
    /\ Last(logs).type = "error"
    /\ Last(logs).msg = <<"FATAL: ">> \o errorMessage

\* C14, amended: in ERROR the error message is non-empty and the last log
\* entry is an error entry reading "FATAL: " followed by the message recorded
\* on entering ERROR; the error message equals that message unless a rejected
\* blank start has replaced it by "Enter a username to start reconnaissance.".
C14_ErrorIsLoggedOnEntry ==
  (status = "ERROR") =>
    /\ errorMessage # <<>>
    /\ logs # <<>>
    /\ Last(logs).type = "error"
    /\ Len(Last(logs).msg) = 2
    /\ Last(logs).msg[1] = "FATAL: "
    /\ \/ Last(logs).msg = <<"FATAL: ">> \o errorMessage
       \/ errorMessage = <<"Enter a username to start reconnaissance.">>
    /\ (lastOp = "failed" => Last(logs).msg = <<"FATAL: ">> \o errorMessage)

C14_Witness ==
  /\ status = "ERROR"
  /\ lastOp = "runBlank"
  /\ errorMessage = <<"Enter a username to start reconnaissance.">>
  /\ Last(logs).msg = <<"FATAL: ", "Username too short (HTTP 400)">>

\* the query interpolated into the first log entry
StartQuery == SubSeq(logs[1].msg, 2, Len(logs[1].msg) - 1)

\* C15: the query of a request is the input text at the accepted start; edits
\* of the input while the request is in flight change neither the {query} text
\* of its log entries, nor the COMPLETE/ERROR decision, nor the username of
\* the generated profile.
C15_QueryFixedAtStart ==
  [][ /\ (lastOp' = "run" => StartQuery' = query)
      /\ ((logs # <<>> /\ lastOp' # "run") => StartQuery' = StartQuery)
      /\ (lastOp' \in {"afterHeaders", "failed", "completed"} =>
            logs'[3].msg = <<"GET /api/v1/profile/">> \o StartQuery \o <<" -> 200 OK">>)
      /\ (lastOp' \in {"afterHeaders", "completed"} => Len(StartQuery) >= 3)
      /\ (lastOp' = "failed" => Len(StartQuery) < 3)
      /\ (lastOp' = "completed" => targetData'.username = StartQuery) ]_vars

C15_Witness ==
  /\ lastOp = "completed"
  /\ targetData.username = <<"a", "a", "a">>
  /\ query = <<"a">>

\* C16: the metrics shown are the projection of the current state: allowed
\* connectors is the number of compliant connectors (3), active jobs the
\* number of RUNNING or QUEUED jobs (2), flagged containers the current
\* cumulative counter (never a stale one), uptime the constant "99.97%".
C16_MetricsProjection ==
  /\ Len(metrics.value) = 4
  /\ metrics.value[1].value = 3
  /\ metrics.value[1].value = Cardinality({k \in 1 .. Len(connectors) : connectors[k].compliant})
  /\ metrics.value[2].value = 2
  /\ metrics.value[2].value =
       Cardinality({k \in 1 .. Len(jobQueue) : jobQueue[k].status \in {"RUNNING", "QUEUED"}})
  /\ metrics.value[3].value = encryptedDetections
  /\ metrics.value[4].value = "99.97%"

C16_Witness ==
  /\ encryptedDetections = 2
  /\ metrics.value[3].value = 2
  /\ status = "COMPLETE"

\* C17: the avatar reference of an attached profile is the one every
\* generation for the same username yields, whatever the draws for id,
\* timestamps, score and twoFactorAuth are.
C17_AvatarDependsOnUsernameOnly ==
  (targetData # Null) =>
    \A u \in Uuid, rc \in Rand, rl \in Rand, rs \in Rand, rt \in Rand :
      buildMockProfile(targetData.username, u, rc, rl, rs, rt).metadata.avatarUrl
        = targetData.metadata.avatarUrl

C17_Witness ==
  /\ targetData # Null
  /\ targetData.id = "uuid-2"
  /\ targetData.security.twoFactorAuth = TRUE
  /\ targetData.metadata.score = 250000
  /\ targetData.metadata.avatarUrl =
       <<"https://api.dicebear.com/9.x/thumbs/svg?seed=", "a", "%", "2", "0", "a">>

\* C18 as stated: the log has 1 entry while CONNECTING, 2 while
\* FETCHING_HEADERS and the 3 entries sys, info, success while PARSING_JSON;
\* "Streaming JSON payload..." comes only with the step into COMPLETE.
C18_LogLengthByPhase ==
  /\ (status = "CONNECTING" => Len(logs) = 1)
  /\ (status = "FETCHING_HEADERS" => Len(logs) = 2)
  /\ (status = "PARSING_JSON" =>
        /\ LogTypes = <<"sys", "info", "success">>
        /\ \A k \in 1 .. Len(logs) : logs[k].msg # <<"Streaming JSON payload...">>)

\* C18, amended: the log has 1 entry while CONNECTING, 2 while
\* FETCHING_HEADERS and the 4 entries sys, info, success, info while
\* PARSING_JSON: "Streaming JSON payload..." is appended on entering
\* PARSING_JSON, right after the GET entry, and the step into COMPLETE
\* appends "Data object materialized." and the MEO warning only.
C18_LogLengthByPhaseAsBuilt ==
  /\ [](/\ (status = "CONNECTING" => LogTypes = <<"sys">>)
        /\ (status = "FETCHING_HEADERS" => LogTypes = <<"sys", "info">>)
        /\ (status = "PARSING_JSON" =>
              /\ LogTypes = <<"sys", "info", "success", "info">>
              /\ logs[4].msg = <<"Streaming JSON payload...">>))
  /\ [][(status' = "COMPLETE" /\ status # "COMPLETE") =>
           /\ Len(logs') = Len(logs) + 2
           /\ SubSeq(logs', 1, Len(logs)) = logs
           /\ logs'[5].msg = <<"Data object materialized.">>
           /\ logs'[6].type = "warn"]_vars

C18_Witness ==
  /\ status = "PARSING_JSON"
  /\ Len(logs) = 4
  /\ logs[4] = [msg |-> <<"Streaming JSON payload...">>, type |-> "info"]

\* C19: a start with a non-blank query is accepted in IDLE, COMPLETE and
\* ERROR (while the counter is followed); in one step it discards the log,
\* profile and error message of the previous request and sets CONNECTING with
\* a log of one entry.  Hence a non-empty log starts with the sys entry
\* "Initializing network socket for {query}..." of the current request, which
\* is its only sys entry, and its GET entry names the same query.
C19_StartReplacesSession ==
  /\ []((status \in {"IDLE", "COMPLETE", "ERROR"} /\ ~IsBlank(query)
          /\ encryptedDetections < MaxDetections)
        => ENABLED (ClickRun /\ lastOp' = "run"))
  /\ [][lastOp' = "run" =>
           /\ status \in {"IDLE", "COMPLETE", "ERROR"}
           /\ status' = "CONNECTING"
           /\ logs' = <<[msg |-> <<"Initializing network socket for ">> \o query \o <<"...">>,
                         type |-> "sys"]>>
           /\ targetData' = Null
           /\ errorMessage' = <<>>]_vars
  /\ [](logs # <<>> =>
          /\ logs[1].type = "sys"
          /\ logs[1].msg[1] = "Initializing network socket for "
          /\ Last(logs[1].msg) = "..."
          /\ \A k \in 2 .. Len(logs) : logs[k].type # "sys"
          /\ Len(logs) <= 6
          /\ (Len(logs) >= 3 =>
                logs[3].msg = <<"GET /api/v1/profile/">> \o StartQuery \o <<" -> 200 OK">>))

C19_Witness ==
  /\ lastOp = "run"
  /\ status = "CONNECTING"
  /\ encryptedDetections = 1
  /\ Len(logs) = 1
  /\ StartQuery = <<"a">>

\* C20: within one request the log is append-only: every step other than an
\* accepted start (or a reset) leaves the log as a prefix of the later log.
C20_LogAppendOnly ==
  [][lastOp' \notin {"run", "clearSession"} =>
       /\ Len(logs') >= Len(logs)
       /\ SubSeq(logs', 1, Len(logs)) = logs]_vars

C20_Witness ==
  /\ lastOp = "failed"
  /\ Len(logs) = 4
  /\ logs[2].msg = <<"TLS handshake complete.">>
  /\ StartQuery = <<" ", "a">>

\* C21: one profile per successful request and none per failed one: the
\* profile goes from absent to present only by the step into COMPLETE, and
\* every step into COMPLETE does that; a step into ERROR leaves it absent;
\* while phase stays COMPLETE the profile is not modified; a present profile
\* changes only by being cleared, by the next accepted start (or a reset).
C21_OneProfilePerSuccess ==
  [][/\ (targetData = Null /\ targetData' # Null) =>
          (lastOp' = "completed" /\ status = "PARSING_JSON" /\ status' = "COMPLETE")
     /\ (status # "COMPLETE" /\ status' = "COMPLETE") =>
          (targetData = Null /\ targetData' # Null)
     /\ (status # "ERROR" /\ status' = "ERROR") =>
          (targetData = Null /\ targetData' = Null)
     /\ (status = "COMPLETE" /\ status' = "COMPLETE") => targetData' = targetData
     /\ (targetData # Null /\ targetData' # targetData) =>
          (targetData' = Null /\ lastOp' \in {"run", "clearSession"})]_vars

C21_Witness ==
  /\ lastOp = "completed"
  /\ encryptedDetections = 2
  /\ targetData # Null
  /\ targetData.id = "uuid-2"
  /\ targetData.username = <<"a", " ", "a">>

\* C22: every generated profile has an integer score with 0 <= score < 500000,
\* accountCreated no later than the generation time and at most 365 days
\* before it, and lastActive no later than the generation time and at most
\* 24 hours (86400000 ms) before it.  Times are offsets before the generation
\* time, in whole days plus milliseconds.
C22_ProfileRanges ==
  (targetData # Null) =>
    LET m == targetData.metadata
    IN /\ m.score \in Int
       /\ 0 <= m.score
       /\ m.score < 500000
       /\ m.accountCreated.days \in Nat
       /\ m.accountCreated.ms \in 0 .. 86400000
       /\ (m.accountCreated.days < 365
             \/ (m.accountCreated.days = 365 /\ m.accountCreated.ms = 0))
       /\ m.lastActive.days = 0
       /\ m.lastActive.ms \in 0 .. 86400000

C22_Witness ==
  /\ targetData # Null
  /\ targetData.metadata.score = 479166
  /\ targetData.metadata.accountCreated = [days |-> 349, ms |-> 68400000]
  /\ targetData.metadata.lastActive = [days |-> 0, ms |-> 12342858]

\* C23: acceptance and the too-short decision measure the same string
\* differently.  A start is accepted iff the query has a non-whitespace
\* character; every accepted request ends; it ends in COMPLETE, with the raw
\* query as username, iff the raw untrimmed length is at least 3 and in ERROR
\* iff it is less than 3.  So a request for one letter padded with two
\* spaces, which has fewer than 3 non-whitespace characters, ends, and can
\* only end in COMPLETE.
C23_AcceptTrimmedDecideRaw ==
  /\ [][/\ (lastOp' = "run" => ~IsBlank(query))
         /\ (lastOp' = "runBlank" => IsBlank(query))
         /\ (lastOp' = "completed" =>
               /\ Len(runs) = 1
               /\ Len(runs[1].q) >= 3
               /\ targetData'.username = runs[1].q)
         /\ (lastOp' = "failed" => (Len(runs) = 1 /\ Len(runs[1].q) < 3))]_vars
  /\ (runs # <<>>) ~> (runs = <<>> /\ status \in {"COMPLETE", "ERROR"})

C23_Witness ==
  /\ status = "COMPLETE"
  /\ lastOp = "completed"
  /\ targetData # Null
  /\ targetData.username = <<"a", " ", " ">>
  /\ Len(trim(targetData.username)) = 1
====
